---- MODULE Spec2Model ----
(***************************************************************************)
(* A model of smolagent's Agent (src/smolagent/agent.py): the action       *)
(* parser (_parse_action), the run loop (run) and the calculator tool it   *)
(* dispatches to (src/smolagent/calculator_tools.py).                      *)
(*                                                                         *)
(* Texts.  A text (a backend reply, a message content) is a sequence of    *)
(* units.  A unit is one of the structural characters  { } [ ] : , "  or   *)
(* a word: a maximal run of other characters, kept whole.  The regular     *)
(* expression of _parse_action and the JSON decoder only ever look at the  *)
(* structural characters and at whole words, so they are modelled unit by  *)
(* unit.  Texts carry no insignificant whitespace and no backslash.        *)
(***************************************************************************)
EXTENDS Integers, Sequences, FiniteSets, TLC

(***************************************************************************)
(* Bounds of the model.                                                    *)
(***************************************************************************)
MaxIterations == 2

\* The longest list of tools an Agent is constructed with.
MaxTools == 2

(***************************************************************************)
(* Structural characters.                                                  *)
(***************************************************************************)
LBRACE == "{"
RBRACE == "}"
LBRACKET == "["
RBRACKET == "]"
COLON == ":"
COMMA == ","
QUOTE == "\""

(***************************************************************************)
(* Python values (what json.loads returns, what a tool returns).  One      *)
(* record shape for all of them:                                           *)
(*   t     "str" | "int" | "float" | "bool" | "None" | "list" | "dict"     *)
(*   s     the content of a str, the digits of an int or a float, the word *)
(*         of a bool                                                       *)
(*   items the elements of a list                                          *)
(*   keys, vals   the keys of a dict in insertion order, and their values  *)
(***************************************************************************)
PyStr(content) == [t |-> "str", s |-> content, items |-> <<>>, keys |-> <<>>, vals |-> <<>>]
PyInt(w) == [t |-> "int", s |-> <<w>>, items |-> <<>>, keys |-> <<>>, vals |-> <<>>]
PyFloat(w) == [t |-> "float", s |-> <<w>>, items |-> <<>>, keys |-> <<>>, vals |-> <<>>]
PyBool(w) == [t |-> "bool", s |-> <<w>>, items |-> <<>>, keys |-> <<>>, vals |-> <<>>]
PyNone == [t |-> "None", s |-> <<>>, items |-> <<>>, keys |-> <<>>, vals |-> <<>>]
PyList(items) == [t |-> "list", s |-> <<>>, items |-> items, keys |-> <<>>, vals |-> <<>>]
PyDict(keys, vals) == [t |-> "dict", s |-> <<>>, items |-> <<>>, keys |-> keys, vals |-> vals]

\* d[k] = v on a dict: a key already present keeps its place and takes the new value.
DictSet(d, k, v) ==
  IF \E i \in 1..Len(d.keys) : d.keys[i] = k
  THEN LET i == CHOOSE j \in 1..Len(d.keys) : d.keys[j] = k
       IN  PyDict(d.keys, [d.vals EXCEPT ![i] = v])
  ELSE PyDict(Append(d.keys, k), Append(d.vals, v))

\* k in d, for a dict d and a str key given by its content.
DictHas(d, k) == \E i \in 1..Len(d.keys) : d.keys[i] = k

\* d[k], for a key that is present.
DictGet(d, k) == d.vals[CHOOSE i \in 1..Len(d.keys) : d.keys[i] = k]

(***************************************************************************)
(* json.loads.  The words that are JSON literals: the numbers that occur   *)
(* in the modelled texts, and true, false, null.                           *)
(***************************************************************************)
NumberWords == {"1", "4", "5", "8", "42"}

\* The numbers with a fraction part.
FloatWords == {"0.3", "4.0"}

DecodeFail == [ok |-> FALSE, val |-> PyNone, next |-> 0]
DecodeOk(v, n) == [ok |-> TRUE, val |-> v, next |-> n]

\* The index of the first QUOTE of s at or after i, 0 when there is none.
NextQuote(s, i) ==
  IF \E j \in i..Len(s) : s[j] = QUOTE
  THEN CHOOSE j \in i..Len(s) : s[j] = QUOTE /\ \A k \in i..(j - 1) : s[k] # QUOTE
  ELSE 0

\* A string literal starting at the QUOTE s[i]: every unit up to the next QUOTE.
DecodeString(s, i) ==
  LET j == NextQuote(s, i + 1)
  IN  IF j = 0 THEN DecodeFail ELSE DecodeOk(PyStr(SubSeq(s, i + 1, j - 1)), j + 1)

RECURSIVE DecodeValue(_, _)
RECURSIVE DecodeMembers(_, _, _)
RECURSIVE DecodeElements(_, _, _)

\* The members of an object from s[i] on, added to the dict d; s[i] starts a key.
DecodeMembers(s, i, d) ==
  IF i > Len(s) \/ s[i] # QUOTE THEN DecodeFail
  ELSE LET k == DecodeString(s, i)
       IN  IF ~k.ok \/ k.next > Len(s) \/ s[k.next] # COLON THEN DecodeFail
           ELSE LET v == DecodeValue(s, k.next + 1)
                IN  IF ~v.ok \/ v.next > Len(s) THEN DecodeFail
                    ELSE IF s[v.next] = COMMA
                         THEN DecodeMembers(s, v.next + 1, DictSet(d, k.val.s, v.val))
                    ELSE IF s[v.next] = RBRACE
                         THEN DecodeOk(DictSet(d, k.val.s, v.val), v.next + 1)
                    ELSE DecodeFail

\* The elements of an array from s[i] on, appended to items; s[i] starts a value.
DecodeElements(s, i, items) ==
  LET v == DecodeValue(s, i)
  IN  IF ~v.ok \/ v.next > Len(s) THEN DecodeFail
      ELSE IF s[v.next] = COMMA
           THEN DecodeElements(s, v.next + 1, Append(items, v.val))
      ELSE IF s[v.next] = RBRACKET
           THEN DecodeOk(PyList(Append(items, v.val)), v.next + 1)
      ELSE DecodeFail

\* One JSON value starting at s[i].
DecodeValue(s, i) ==
  IF i > Len(s) THEN DecodeFail
  ELSE IF s[i] = LBRACE
       THEN IF i + 1 <= Len(s) /\ s[i + 1] = RBRACE
            THEN DecodeOk(PyDict(<<>>, <<>>), i + 2)
            ELSE DecodeMembers(s, i + 1, PyDict(<<>>, <<>>))
  ELSE IF s[i] = LBRACKET
       THEN IF i + 1 <= Len(s) /\ s[i + 1] = RBRACKET
            THEN DecodeOk(PyList(<<>>), i + 2)
            ELSE DecodeElements(s, i + 1, <<>>)
  ELSE IF s[i] = QUOTE THEN DecodeString(s, i)
  ELSE IF s[i] \in NumberWords THEN DecodeOk(PyInt(s[i]), i + 1)
  ELSE IF s[i] \in FloatWords THEN DecodeOk(PyFloat(s[i]), i + 1)
  ELSE IF s[i] \in {"true", "false"} THEN DecodeOk(PyBool(s[i]), i + 1)
  ELSE IF s[i] = "null" THEN DecodeOk(PyNone, i + 1)
  ELSE DecodeFail

\* json.loads(s): the value when s is exactly one JSON value, else JSONDecodeError.
JsonLoads(s) ==
  LET v == DecodeValue(s, 1)
  IN  IF v.ok /\ v.next = Len(s) + 1
      THEN [ok |-> TRUE, val |-> v.val]
      ELSE [ok |-> FALSE, val |-> PyNone]

(***************************************************************************)
(* re.search(r"\{.*\}", response, re.DOTALL): the span from the first {    *)
(* to the last } after it.                                                 *)
(***************************************************************************)
FirstIndex(s, u) ==
  IF \E i \in 1..Len(s) : s[i] = u
  THEN CHOOSE i \in 1..Len(s) : s[i] = u /\ \A k \in 1..(i - 1) : s[k] # u
  ELSE 0

LastIndex(s, u) ==
  IF \E i \in 1..Len(s) : s[i] = u
  THEN CHOOSE i \in 1..Len(s) : s[i] = u /\ \A k \in (i + 1)..Len(s) : s[k] # u
  ELSE 0

JsonMatch(response) ==
  LET i == FirstIndex(response, LBRACE)
      j == LastIndex(response, RBRACE)
  IN  IF i # 0 /\ i < j
      THEN [found |-> TRUE, group |-> SubSeq(response, i, j)]
      ELSE [found |-> FALSE, group |-> <<>>]

\* Agent._parse_action: [ok, val]; ~ok is json.JSONDecodeError.
\* A span that does not decode is followed by an attempt on the whole response.
ParseAction_WholeTextNext(response) ==
  LET json_match == JsonMatch(response)
  IN  IF json_match.found /\ JsonLoads(json_match.group).ok
      THEN JsonLoads(json_match.group)
      ELSE JsonLoads(response)

ParseAction(response) ==
  LET json_match == JsonMatch(response)
  IN  IF json_match.found
      THEN JsonLoads(json_match.group)
      ELSE JsonLoads(response)

(***************************************************************************)
(* Python's operators on decoded values, as Agent.run uses them.  Each     *)
(* gives [ok, val]; ~ok is a TypeError raised by the operator.             *)
(***************************************************************************)
\* Whether the units k occur consecutively in s (the substring test on str).
IsSubSeq(k, s) ==
  \E i \in 1..(Len(s) - Len(k) + 1) : SubSeq(s, i, i + Len(k) - 1) = k

\* key in container, for a str key given by its content.
PyContains(key, container) ==
  IF container.t = "dict" THEN [ok |-> TRUE, val |-> DictHas(container, key)]
  ELSE IF container.t = "str" THEN [ok |-> TRUE, val |-> IsSubSeq(key, container.s)]
  ELSE IF container.t = "list"
       THEN [ok |-> TRUE,
             val |-> \E i \in 1..Len(container.items) : container.items[i] = PyStr(key)]
  ELSE [ok |-> FALSE, val |-> FALSE]

\* container[key], for a str key: only a dict takes a str subscript.
PySubscript(container, key) ==
  IF container.t = "dict" /\ DictHas(container, key)
  THEN [ok |-> TRUE, val |-> DictGet(container, key)]
  ELSE [ok |-> FALSE, val |-> PyNone]

\* action.get("arguments", {})
PyGet(container, key, default) ==
  IF DictHas(container, key) THEN DictGet(container, key) ELSE default

\* hash(v) succeeds: lists and dicts are unhashable.
PyHashable(v) == v.t \notin {"list", "dict"}

RECURSIVE PyRepr(_)
RECURSIVE ReprItems(_, _)
RECURSIVE ReprPairs(_, _, _)
\* repr(v) as a text.
PyRepr(v) ==
  IF v.t = "str" THEN <<"'">> \o v.s \o <<"'">>
  ELSE IF v.t \in {"int", "float"} THEN v.s
  ELSE IF v.t = "bool" THEN (IF v.s = <<"true">> THEN <<"True">> ELSE <<"False">>)
  ELSE IF v.t = "None" THEN <<"None">>
  ELSE IF v.t = "list" THEN <<LBRACKET>> \o ReprItems(v.items, 1) \o <<RBRACKET>>
  ELSE <<LBRACE>> \o ReprPairs(v.keys, v.vals, 1) \o <<RBRACE>>

ReprItems(items, i) ==
  IF i > Len(items) THEN <<>>
  ELSE (IF i > 1 THEN <<COMMA, " ">> ELSE <<>>) \o PyRepr(items[i]) \o ReprItems(items, i + 1)

ReprPairs(keys, vals, i) ==
  IF i > Len(keys) THEN <<>>
  ELSE (IF i > 1 THEN <<COMMA, " ">> ELSE <<>>)
       \o <<"'">> \o keys[i] \o <<"'", COLON, " ">> \o PyRepr(vals[i])
       \o ReprPairs(keys, vals, i + 1)

\* str(v), what an f-string puts for {v}: a str is its own content.
PyFormat(v) == IF v.t = "str" THEN v.s ELSE PyRepr(v)

(***************************************************************************)
(* Tools.  A tool object is [cls, name, description]; calling its execute  *)
(* gives an outcome [ok, val, exc, msg]: a returned value, or a raised     *)
(* exception with its type and message.                                    *)
(***************************************************************************)
Returned(v) == [ok |-> TRUE, val |-> v, exc |-> "", msg |-> <<>>]
Raised(type, m) == [ok |-> FALSE, val |-> PyNone, exc |-> type, msg |-> m]

\* No tool is called in this step.
NoOutcome == Returned(PyNone)

CalculatorTool ==
  [cls |-> "CalculatorTool",
   name |-> <<"calculator">>,
   description |->
     <<"Evaluates a mathematical expression and returns the result. Supports basic operations (+, -, *, /, **), parentheses, and numbers. Example: calculator(expression='2 + 2 * 3')">>]

\* A caller's own Tool subclass with execute(self, **kwargs), as in tests/test_tools.py.
ConcreteTool ==
  [cls |-> "ConcreteTool",
   name |-> <<"test_tool">>,
   description |-> <<"A test tool">>]

VerifyCalculationTool ==
  [cls |-> "VerifyCalculationTool",
   name |-> <<"verify_calculation">>,
   description |->
     <<"Verifies if a calculation result is correct. Takes an expression and an expected result, returns True if correct. Example: verify_calculation(expression='2 + 2', expected=4)">>]

\* An expression that reaches site's Quitter through the subclasses of object
\* and calls it: no builtin is needed for that.
UnsafeExpression ==
  <<"[c for c in ().__class__.__base__.__subclasses__() if c.__name__ == 'Quitter'][0]('q', 'e')()">>

\* `except Exception` catches this exception type: the subclasses of
\* BaseException outside Exception are not caught.
IsException(type) == type \notin {"SystemExit", "KeyboardInterrupt", "GeneratorExit"}

\* eval(expression, safe_namespace, {}) on a str: the outcomes the interpreter can
\* give.  The expressions of the repository's tests are tabulated; any other
\* expression may evaluate to a value or raise.
PyEval(expression) ==
  IF expression = <<"2 + 2 * 3">> THEN {Returned(PyInt("8"))}
  ELSE IF expression = UnsafeExpression THEN {Raised("SystemExit", <<"None">>)}
  ELSE IF expression = <<"2 + 2">> THEN {Returned(PyInt("4"))}
  ELSE IF expression = <<"0.1 + 0.2">> THEN {Returned(PyFloat("0.30000000000000004"))}
  ELSE IF expression = <<"invalid">>
       THEN {Raised("NameError", <<"name 'invalid' is not defined">>)}
  ELSE IF expression = <<"2 +">>
       THEN {Raised("SyntaxError", <<"invalid syntax (<string>, line 1)">>)}
  ELSE IF expression = <<"import os">>
       THEN {Raised("SyntaxError", <<"invalid syntax (<string>, line 1)">>)}
  ELSE {Returned(PyInt("1")),
        Raised("NameError", <<"name is not defined">>),
        Raised("ZeroDivisionError", <<"division by zero">>)}

\* CalculatorTool.execute(expression): the try/except around eval.
CalculatorEval(expression) ==
  LET raw == IF expression.t = "str"
             THEN PyEval(expression.s)
             ELSE {Raised("TypeError",
                          <<"eval() arg 1 must be a string, bytes or code object">>)}
  IN  {IF o.ok \/ ~IsException(o.exc) THEN o
       ELSE Raised("ValueError", <<"Invalid expression", COLON, " ">> \o o.msg)
       : o \in raw}

\* CalculatorTool.execute(**kwargs): the binding of the keyword arguments to the
\* one parameter expression, then the body.
CalculatorExecute(kwargs) ==
  IF \E i \in 1..Len(kwargs.keys) : kwargs.keys[i] # <<"expression">>
  THEN LET i == CHOOSE j \in 1..Len(kwargs.keys) :
                  /\ kwargs.keys[j] # <<"expression">>
                  /\ \A k \in 1..(j - 1) : kwargs.keys[k] = <<"expression">>
       IN  {Raised("TypeError",
                   <<"CalculatorTool.execute() got an unexpected keyword argument '">>
                   \o kwargs.keys[i] \o <<"'">>)}
  ELSE IF ~DictHas(kwargs, <<"expression">>)
  THEN {Raised("TypeError",
               <<"CalculatorTool.execute() missing 1 required positional argument",
                 COLON, " 'expression'">>)}
  ELSE CalculatorEval(DictGet(kwargs, <<"expression">>))

\* ConcreteTool.execute(**kwargs): any keyword arguments; what it does is the
\* caller's code, so it may return or raise.
ConcreteExecute(kwargs) ==
  {Returned(PyStr(<<"executed">>)), Raised("RuntimeError", <<"boom">>)}

\* The value of a number as [n, d]: n tenths and d units of 1e-18.  A float is
\* the binary double nearest to its digits, so 0.3 is a little under 3 tenths.
Num(v) ==
  IF v.t = "bool" THEN [n |-> IF v.s = <<"true">> THEN 10 ELSE 0, d |-> 0]
  ELSE IF v.s = <<"1">> THEN [n |-> 10, d |-> 0]
  ELSE IF v.s = <<"4">> \/ v.s = <<"4.0">> THEN [n |-> 40, d |-> 0]
  ELSE IF v.s = <<"5">> THEN [n |-> 50, d |-> 0]
  ELSE IF v.s = <<"8">> THEN [n |-> 80, d |-> 0]
  ELSE IF v.s = <<"42">> THEN [n |-> 420, d |-> 0]
  ELSE IF v.s = <<"0.3">> THEN [n |-> 3, d |-> -11]
  ELSE [n |-> 3, d |-> 44]

IsNumber(v) == v.t \in {"int", "float", "bool"}

\* 1e-9 in units of 1e-18.
Tolerance == 1000000000

\* abs(actual - expected) < 1e-9 on two numbers.
Close(actual, expected) ==
  LET a == Num(actual)
      b == Num(expected)
      diff == IF a.d >= b.d THEN a.d - b.d ELSE b.d - a.d
  IN  a.n = b.n /\ diff < Tolerance

\* actual == expected: numbers by value, anything else by type and content.
PyEq(actual, expected) ==
  IF IsNumber(actual) /\ IsNumber(expected) THEN Num(actual) = Num(expected)
  ELSE actual = expected

BoolOf(b) == PyBool(IF b THEN "true" ELSE "false")

\* Lines 161-168: the try/except of VerifyCalculationTool.execute, o being the
\* outcome of calculator.execute(expression).
VerifyCompare(o, expected) ==
  IF ~o.ok THEN (IF IsException(o.exc) THEN Returned(BoolOf(FALSE)) ELSE o)
  ELSE IF o.val.t = "float" \/ expected.t = "float"
  THEN IF IsNumber(o.val) /\ IsNumber(expected)
       THEN Returned(BoolOf(Close(o.val, expected)))
       ELSE Returned(BoolOf(FALSE))
  ELSE Returned(BoolOf(PyEq(o.val, expected)))

\* VerifyCalculationTool.execute(**kwargs): the binding of the keyword arguments
\* to expression and expected, then the body.
VerifyExecute(kwargs) ==
  LET params == {<<"expression">>, <<"expected">>}
  IN  IF \E i \in 1..Len(kwargs.keys) : kwargs.keys[i] \notin params
      THEN LET i == CHOOSE j \in 1..Len(kwargs.keys) :
                      /\ kwargs.keys[j] \notin params
                      /\ \A k \in 1..(j - 1) : kwargs.keys[k] \in params
           IN  {Raised("TypeError",
                       <<"VerifyCalculationTool.execute() got an unexpected keyword argument '">>
                       \o kwargs.keys[i] \o <<"'">>)}
      ELSE IF \E k \in params : ~DictHas(kwargs, k)
      THEN {Raised("TypeError",
                   <<"VerifyCalculationTool.execute() missing required positional arguments">>)}
      ELSE {VerifyCompare(o, DictGet(kwargs, <<"expected">>))
            : o \in CalculatorEval(DictGet(kwargs, <<"expression">>))}

\* tool.execute(**kwargs) on a dict kwargs.
Execute(tool, kwargs) ==
  IF tool.cls = "CalculatorTool" THEN CalculatorExecute(kwargs)
  ELSE IF tool.cls = "VerifyCalculationTool" THEN VerifyExecute(kwargs)
  ELSE ConcreteExecute(kwargs)

\* The call expression tool.execute(**tool_args): ** needs a mapping.
CallExecute(tool, tool_args) ==
  IF tool_args.t # "dict"
  THEN {Raised("TypeError", <<"execute() argument after ** must be a mapping">>)}
  ELSE Execute(tool, tool_args)

(***************************************************************************)
(* Agent.__init__ and the system prompt.                                   *)
(***************************************************************************)
RECURSIVE Registry_FirstWins(_, _)
\* A name already in the registry keeps its tool (setdefault).
Registry_FirstWins(tools, d) ==
  IF tools = <<>> THEN d
  ELSE Registry_FirstWins(Tail(tools),
                          IF DictHas(d, Head(tools).name) THEN d
                          ELSE DictSet(d, Head(tools).name, Head(tools)))

RECURSIVE Registry(_, _)
\* {tool.name: tool for tool in tools}: the tools from index i on, added to d.
Registry(tools, d) ==
  IF tools = <<>> THEN d
  ELSE Registry(Tail(tools), DictSet(d, Head(tools).name, Head(tools)))

RECURSIVE JoinLines(_)
\* "\n".join(descriptions)
JoinLines(descriptions) ==
  IF descriptions = <<>> THEN <<>>
  ELSE IF Len(descriptions) = 1 THEN descriptions[1]
  ELSE descriptions[1] \o <<"\n">> \o JoinLines(Tail(descriptions))

\* The descriptions are left out of the lines.
FormatToolsDescription_NamesOnly(registry) ==
  JoinLines([i \in 1..Len(registry.vals) |-> <<"- ">> \o registry.vals[i].name])

\* Agent._format_tools_description, over the registry's values.
FormatToolsDescription(registry) ==
  JoinLines([i \in 1..Len(registry.vals) |->
               <<"- ">> \o registry.vals[i].name \o <<COLON, " ">>
               \o registry.vals[i].description])

\* Agent._create_system_prompt
CreateSystemPrompt(registry) ==
  <<"You are a helpful AI assistant that can use tools to accomplish tasks.\n\nAvailable tools",
    COLON, "\n">>
  \o FormatToolsDescription(registry)
  \o <<"\n\nTo use a tool, respond with a JSON object in this format", COLON, "\n",
       LBRACE, QUOTE, "tool", QUOTE, COLON, " ", QUOTE, "tool_name", QUOTE, COMMA, " ",
       QUOTE, "arguments", QUOTE, COLON, " ",
       LBRACE, QUOTE, "arg1", QUOTE, COLON, " ", QUOTE, "value1", QUOTE, COMMA, " ",
       QUOTE, "arg2", QUOTE, COLON, " ", QUOTE, "value2", QUOTE, RBRACE, RBRACE,
       "\n\nWhen you have completed the task, respond with", COLON, "\n",
       LBRACE, QUOTE, "final_answer", QUOTE, COLON, " ", QUOTE, "your answer here", QUOTE,
       RBRACE,
       "\n\nAlways think step by step and use tools to verify your work when possible.\n">>

(***************************************************************************)
(* The inputs of the model: the task, the texts the backend may return,    *)
(* the failures a backend call may raise, and the tools given to the       *)
(* constructor.                                                            *)
(***************************************************************************)
Lit(w) == <<QUOTE, w, QUOTE>>
Obj(members) == <<LBRACE>> \o members \o <<RBRACE>>
Member(k, v) == Lit(k) \o <<COLON>> \o v

Task == <<"What is 2 + 2 * 3?">>

FinalX == Obj(Member("final_answer", Lit("X")))
Final8 == Obj(Member("final_answer", Lit("8")))
ProseFinal == <<"The answer is ">> \o FinalX \o <<" as computed.">>
CallCalculator ==
  Obj(Member("tool", Lit("calculator")) \o <<COMMA>>
      \o Member("arguments", Obj(Member("expression", Lit("2 + 2 * 3")))))
CallCalculatorBad ==
  Obj(Member("tool", Lit("calculator")) \o <<COMMA>>
      \o Member("arguments", Obj(Member("expression", Lit("2 +")))))
CallCalculatorNoArgs == Obj(Member("tool", Lit("calculator")))
CallCalculatorListArgs ==
  Obj(Member("tool", Lit("calculator")) \o <<COMMA>>
      \o Member("arguments", <<LBRACKET, "1", RBRACKET>>))
CallCalculatorUnsafe ==
  Obj(Member("tool", Lit("calculator")) \o <<COMMA>>
      \o Member("arguments", Obj(Member("expression", Lit(UnsafeExpression[1])))))
CallConcrete == Obj(Member("tool", Lit("test_tool")))
CallUnknown == Obj(Member("tool", Lit("search")))
EmptyObject == Obj(<<>>)
OnlyArguments == Obj(Member("arguments", Obj(<<>>)))
BothRegistered ==
  Obj(Member("final_answer", Lit("X")) \o <<COMMA>> \o Member("tool", Lit("calculator")))
BothUnknown ==
  Obj(Member("tool", Lit("search")) \o <<COMMA>> \o Member("final_answer", Lit("X")))
Prose == <<"I will think about it.">>
BadBraces == <<LBRACE, "hello", RBRACE>>
ListWithBraces == <<LBRACKET>> \o Lit(LBRACE) \o <<COMMA, "1", COMMA>> \o Lit(RBRACE) \o <<RBRACKET>>
Number42 == <<"42">>
Null == <<"null">>
StringAbc == Lit("abc")
StringTool == Lit("tool")
ListOne == <<LBRACKET, "1", RBRACKET>>
ListFinal == <<LBRACKET>> \o Lit("final_answer") \o <<RBRACKET>>
FinalNumber == Obj(Member("final_answer", <<"8">>))
ToolNumber == Obj(Member("tool", <<"5">>))
ToolList == Obj(Member("tool", <<LBRACKET>> \o Lit("calculator") \o <<RBRACKET>>))

Replies ==
  {FinalX, Final8, ProseFinal, CallCalculator, CallCalculatorBad, CallCalculatorNoArgs,
   CallCalculatorListArgs, CallCalculatorUnsafe, CallConcrete, CallUnknown, EmptyObject,
   OnlyArguments, BothRegistered,
   BothUnknown, Prose, BadBraces, ListWithBraces, Number42, Null, StringAbc, StringTool,
   ListOne, ListFinal, FinalNumber, ToolNumber, ToolList}

\* What a backend's generate may raise (requests' raise_for_status, a timeout).
BackendErrors == {Raised("HTTPError", <<"502 Server Error">>)}

\* The lists of tools an Agent is constructed with.
ToolLists == {<<CalculatorTool, ConcreteTool>>}

\* The values of max_iterations an Agent is constructed with.
Budgets == (-1)..MaxIterations

(***************************************************************************)
(* The state.  The agent's fields, and one frame per call of run: the      *)
(* call's locals and position, with what the call did so far:             *)
(*   calls     per backend call, the conversation it received and whether  *)
(*             it raised                                                   *)
(*   executed  per tool call, the tool, its arguments, its outcome and the *)
(*             position of the assistant message that asked for it         *)
(*   printed   the lines printed                                           *)
(***************************************************************************)
VARIABLES llm_provider, tools, max_iterations, frame

vars == <<llm_provider, tools, max_iterations, frame>>

\* The calls of run the model follows.
Calls == {"a", "b"}

Message(role, content) == [role |-> role, content |-> content]

IdleFrame ==
  [pc |-> "idle", task |-> <<>>, verbose |-> FALSE, messages |-> <<>>,
   stop |-> 0, iteration |-> 0, result |-> PyNone, exc |-> NoOutcome,
   calls |-> <<>>, executed |-> <<>>, printed |-> <<>>]

\* print(line) when verbose.
PrintIfVerbose(f, line) ==
  IF f.verbose THEN [f EXCEPT !.printed = Append(@, line)] ELSE f

\* The message takes the place of the last one.
AppendMessage_Overwrite(f, role, content) ==
  [f EXCEPT !.messages = [@ EXCEPT ![Len(@)] = Message(role, content)]]

\* messages.append({"role": role, "content": content})
AppendMessage(f, role, content) ==
  [f EXCEPT !.messages = Append(@, Message(role, content))]

\* The conversation is kept on the agent: a call starts from what the other
\* calls have left there, and adds its task.
EnterRun_SharedConversation(task, verbose, registry, budget) ==
  LET begun == {c \in Calls : frame[c].pc # "idle"}
      kept == IF begun = {} THEN <<Message("system", CreateSystemPrompt(registry))>>
              ELSE frame[CHOOSE c \in begun : TRUE].messages
  IN  [IdleFrame EXCEPT
         !.pc = "generate", !.task = task, !.verbose = verbose,
         !.messages = kept \o <<Message("user", task)>>,
         !.stop = budget]

\* Lines 86-91: the conversation is seeded and range(self.max_iterations) is made.
EnterRun(task, verbose, registry, budget) ==
  [IdleFrame EXCEPT
     !.pc = "generate", !.task = task, !.verbose = verbose,
     !.messages = <<Message("system", CreateSystemPrompt(registry)), Message("user", task)>>,
     !.stop = budget]

\* The loop runs once more than range(stop) allows.
HasNext_OffByOne(f) == f.iteration <= f.stop

\* The for loop has another iteration.
HasNext(f) == f.iteration < f.stop

\* Lines 92-96: the iteration starts and generate is called with the conversation.
CallGenerate(f) ==
  LET g == PrintIfVerbose(f, <<"\n=== Iteration ", ToString(f.iteration + 1), " ===">>)
  IN  [g EXCEPT !.iteration = @ + 1,
                !.calls = Append(@, [messages |-> g.messages, failed |-> FALSE])]

\* Lines 96-102: generate returned response.
GenerateReturns(f, response) ==
  LET g == PrintIfVerbose(CallGenerate(f), <<"Agent", COLON, " ">> \o response)
  IN  [AppendMessage(g, "assistant", response) EXCEPT !.pc = "dispatch"]

\* The failure is swallowed and the loop goes on.
GenerateRaises_Retry(f, e) ==
  LET g == CallGenerate(f)
  IN  [g EXCEPT !.pc = "generate", !.calls[Len(g.calls)].failed = TRUE]

\* Line 96: generate raised; nothing in run catches it.
GenerateRaises(f, e) ==
  LET g == CallGenerate(f)
  IN  [g EXCEPT !.pc = "raised", !.exc = e, !.calls[Len(g.calls)].failed = TRUE]

\* Line 154: the loop ended without a return.
RaiseBudget(f, budget) ==
  [f EXCEPT !.pc = "raised",
            !.exc = Raised("RuntimeError",
                           <<"Max iterations (", ToString(budget), ") exceeded">>)]

\* The response run is dispatching on: the assistant message just appended.
Response(f) == f.messages[Len(f.messages)].content

\* continue, or the end of the loop body: back to the head of the loop.
NextIteration(f) == [f EXCEPT !.pc = "generate"]

\* An exception no handler of run catches.
Escapes(f, type, m) == [f EXCEPT !.pc = "raised", !.exc = Raised(type, m)]

CorrectiveMessage == <<"Please respond with a valid JSON object.">>
ChooseMessage == <<"Please specify a tool to use or provide a final_answer.">>
UnknownToolMessage(tool_name) == <<"Unknown tool", COLON, " ">> \o PyFormat(tool_name)
\* The f-string lost its placeholder.
ToolResultMessage_NoResult(result) == <<"Tool result", COLON, " ">>

ToolResultMessage(result) == <<"Tool result", COLON, " ">> \o PyFormat(result)
ToolErrorMessage(e) == <<"Tool error", COLON, " ">> \o e.msg

\* The except clause is missing: the JSONDecodeError escapes run.
OnMalformed_Escapes(f) == Escapes(f, "JSONDecodeError", <<"Expecting value">>)

\* Lines 107-115: _parse_action raised JSONDecodeError.
OnMalformed(f) == NextIteration(AppendMessage(f, "user", CorrectiveMessage))

\* Nothing is appended for an action with neither field.
OnNoTool_NoMessage(f) == NextIteration(f)

\* Lines 144-152: the action has neither field.
OnNoTool(f) == NextIteration(AppendMessage(f, "user", ChooseMessage))

\* The membership test is missing: self.tools[tool_name] raises KeyError.
OnUnknownTool_KeyError(f, tool_name) == Escapes(f, "KeyError", PyRepr(tool_name))

\* Lines 126-131: the tool named is not in the registry.
OnUnknownTool(f, tool_name) ==
  NextIteration(
    AppendMessage(PrintIfVerbose(f, <<"Error", COLON, " ">> \o UnknownToolMessage(tool_name)),
                  "user", UnknownToolMessage(tool_name)))

\* tool_name not in self.tools, on a hashable tool_name.
IsRegistered(registry, tool_name) ==
  tool_name.t = "str" /\ DictHas(registry, tool_name.s)

\* The try has no except: what the tool raises escapes run.
DispatchTool_NoExcept(f, tool, tool_args, o) ==
  LET g == [f EXCEPT !.executed = Append(@, [tool |-> tool, args |-> tool_args,
                                             outcome |-> o, at |-> Len(f.messages)])]
  IN  IF o.ok
      THEN NextIteration(AppendMessage(PrintIfVerbose(g, ToolResultMessage(o.val)), "user",
                                       ToolResultMessage(o.val)))
      ELSE Escapes(g, o.exc, o.msg)

\* The append of the observation is indented under `if verbose:`.
DispatchTool_AppendIfVerbose(f, tool, tool_args, o) ==
  LET g == [f EXCEPT !.executed = Append(@, [tool |-> tool, args |-> tool_args,
                                             outcome |-> o, at |-> Len(f.messages)])]
      m == IF o.ok THEN ToolResultMessage(o.val) ELSE ToolErrorMessage(o)
  IN  IF ~o.ok /\ ~IsException(o.exc) THEN Escapes(g, o.exc, o.msg)
      ELSE IF f.verbose
      THEN NextIteration(AppendMessage(PrintIfVerbose(g, m), "user", m))
      ELSE NextIteration(g)

\* Lines 133-143: the tool call and its try/except; o is the outcome of the call.
DispatchTool(f, tool, tool_args, o) ==
  LET g == [f EXCEPT !.executed = Append(@, [tool |-> tool, args |-> tool_args,
                                             outcome |-> o, at |-> Len(f.messages)])]
  IN  IF o.ok
      THEN NextIteration(AppendMessage(PrintIfVerbose(g, ToolResultMessage(o.val)), "user",
                                       ToolResultMessage(o.val)))
      ELSE IF ~IsException(o.exc) THEN Escapes(g, o.exc, o.msg)
      ELSE NextIteration(AppendMessage(PrintIfVerbose(g, ToolErrorMessage(o)), "user",
                                       ToolErrorMessage(o)))

\* Lines 122-152: the action is not a final answer.
DispatchAction(f, registry, action, o) ==
  LET has_tool == PyContains(<<"tool">>, action)
  IN  IF ~has_tool.ok
      THEN Escapes(f, "TypeError", <<"argument of type is not iterable">>)
      ELSE IF ~has_tool.val
      THEN OnNoTool(f)
      ELSE LET tool_name == PySubscript(action, <<"tool">>)
           IN  IF ~tool_name.ok
               THEN Escapes(f, "TypeError", <<"indices must be integers">>)
               ELSE IF ~PyHashable(tool_name.val)
               THEN Escapes(f, "TypeError", <<"unhashable type">>)
               ELSE IF ~IsRegistered(registry, tool_name.val)
               THEN OnUnknownTool(f, tool_name.val)
               ELSE DispatchTool(f, DictGet(registry, tool_name.val.s),
                                 PyGet(action, <<"arguments">>, PyDict(<<>>, <<>>)), o)

\* Lines 117-119: the test for a final answer, and the return.
OnFinalAnswer(f, action) ==
  LET answer == PySubscript(action, <<"final_answer">>)
  IN  IF ~answer.ok
      THEN Escapes(f, "TypeError", <<"indices must be integers">>)
      ELSE [f EXCEPT !.pc = "returned", !.result = answer.val]

\* The tool is looked at before the final answer.
OnAction_ToolFirst(f, registry, action, o) ==
  LET has_tool == PyContains(<<"tool">>, action)
      has_final == PyContains(<<"final_answer">>, action)
  IN  IF has_tool.ok /\ has_tool.val THEN DispatchAction(f, registry, action, o)
      ELSE IF ~has_final.ok
      THEN Escapes(f, "TypeError", <<"argument of type is not iterable">>)
      ELSE IF has_final.val THEN OnFinalAnswer(f, action)
      ELSE DispatchAction(f, registry, action, o)

\* Lines 117-152: what run does with a decoded action.
OnAction(f, registry, action, o) ==
  LET has_final == PyContains(<<"final_answer">>, action)
  IN  IF ~has_final.ok
      THEN Escapes(f, "TypeError", <<"argument of type is not iterable">>)
      ELSE IF has_final.val THEN OnFinalAnswer(f, action)
      ELSE DispatchAction(f, registry, action, o)

\* Lines 104-152: the rest of the loop body, after the assistant message.
Dispatch(f, registry, o) ==
  LET parsed == ParseAction(Response(f))
  IN  IF ~parsed.ok THEN OnMalformed(f) ELSE OnAction(f, registry, parsed.val, o)

\* The tool call the loop body makes on a response, if it makes one:
\* [calls, tool, args].
ToolCall(response, registry) ==
  LET parsed == ParseAction(response)
      none == [calls |-> FALSE, tool |-> CalculatorTool, args |-> PyNone]
  IN  IF ~parsed.ok \/ parsed.val.t # "dict" THEN none
      ELSE IF DictHas(parsed.val, <<"final_answer">>) \/ ~DictHas(parsed.val, <<"tool">>)
      THEN none
      ELSE LET tool_name == DictGet(parsed.val, <<"tool">>)
           IN  IF ~PyHashable(tool_name) \/ ~IsRegistered(registry, tool_name) THEN none
               ELSE [calls |-> TRUE, tool |-> DictGet(registry, tool_name.s),
                     args |-> PyGet(parsed.val, <<"arguments">>, PyDict(<<>>, <<>>))]

\* The outcomes the tool call of this step may have.
Outcomes(f, registry) ==
  LET c == ToolCall(Response(f), registry)
  IN  IF c.calls THEN CallExecute(c.tool, c.args) ELSE {NoOutcome}

(***************************************************************************)
(* Init: the agent as Agent.__init__ leaves it, no call of run made yet.   *)
(***************************************************************************)
Init ==
  /\ llm_provider = "backend"
  /\ \E tool_list \in ToolLists : tools = Registry(tool_list, PyDict(<<>>, <<>>))
  /\ max_iterations \in Budgets
  /\ frame = [c \in Calls |-> IdleFrame]

(***************************************************************************)
(* The actions of one call c of run.                                       *)
(***************************************************************************)
\* run(task, verbose) is called.
Run(c) ==
  /\ frame[c].pc = "idle"
  /\ \E verbose \in BOOLEAN :
       frame' = [frame EXCEPT ![c] = EnterRun(Task, verbose, tools, max_iterations)]
  /\ UNCHANGED <<llm_provider, tools, max_iterations>>

\* The backend call of an iteration returns a text.
Generate(c) ==
  /\ frame[c].pc = "generate"
  /\ HasNext(frame[c])
  /\ \E response \in Replies :
       frame' = [frame EXCEPT ![c] = GenerateReturns(@, response)]
  /\ UNCHANGED <<llm_provider, tools, max_iterations>>

\* The backend call of an iteration raises.
GenerateFails(c) ==
  /\ frame[c].pc = "generate"
  /\ HasNext(frame[c])
  /\ \E e \in BackendErrors :
       frame' = [frame EXCEPT ![c] = GenerateRaises(@, e)]
  /\ UNCHANGED <<llm_provider, tools, max_iterations>>

\* The rest of the loop body: parse, then return, call a tool or ask again.
Step(c) ==
  /\ frame[c].pc = "dispatch"
  /\ \E o \in Outcomes(frame[c], tools) :
       frame' = [frame EXCEPT ![c] = Dispatch(@, tools, o)]
  /\ UNCHANGED <<llm_provider, tools, max_iterations>>

\* The loop is exhausted.
BudgetExceeded(c) ==
  /\ frame[c].pc = "generate"
  /\ ~HasNext(frame[c])
  /\ frame' = [frame EXCEPT ![c] = RaiseBudget(@, max_iterations)]
  /\ UNCHANGED <<llm_provider, tools, max_iterations>>

\* One call of run, from the call to its return or raise.
Next ==
  \/ Run("a")
  \/ Generate("a")
  \/ GenerateFails("a")
  \/ Step("a")
  \/ BudgetExceeded("a")

Spec == Init /\ [][Next]_vars

\* run is sequential code: it goes from each statement to the next; every backend
\* call returns or raises; and every tool call returns or raises, so that the loop
\* body, once entered, is left.
SpecLive ==
  /\ Spec
  /\ WF_vars(Run("a"))
  /\ WF_vars(Generate("a") \/ GenerateFails("a"))
  /\ WF_vars(BudgetExceeded("a"))
  /\ []<>(frame["a"].pc # "dispatch")

(***************************************************************************)
(* Two calls of run on the same agent and task, "a" with verbose=True and  *)
(* "b" with verbose=False, given the same backend replies, the same        *)
(* backend failures and the same tool outcomes: each action below is the   *)
(* action of one call above, taken by both calls on the same input.        *)
(***************************************************************************)
RunBoth ==
  /\ \A c \in Calls : frame[c].pc = "idle"
  /\ frame' = [c \in Calls |-> EnterRun(Task, c = "a", tools, max_iterations)]
  /\ UNCHANGED <<llm_provider, tools, max_iterations>>

GenerateBoth ==
  /\ \E c \in Calls : frame[c].pc = "generate" /\ HasNext(frame[c])
  /\ \E response \in Replies :
       frame' = [c \in Calls |->
                   IF frame[c].pc = "generate" /\ HasNext(frame[c])
                   THEN GenerateReturns(frame[c], response)
                   ELSE frame[c]]
  /\ UNCHANGED <<llm_provider, tools, max_iterations>>

GenerateFailsBoth ==
  /\ \E c \in Calls : frame[c].pc = "generate" /\ HasNext(frame[c])
  /\ \E e \in BackendErrors :
       frame' = [c \in Calls |->
                   IF frame[c].pc = "generate" /\ HasNext(frame[c])
                   THEN GenerateRaises(frame[c], e)
                   ELSE frame[c]]
  /\ UNCHANGED <<llm_provider, tools, max_iterations>>

StepBoth ==
  \E c0 \in Calls :
    /\ frame[c0].pc = "dispatch"
    /\ \E o \in Outcomes(frame[c0], tools) :
         frame' = [c \in Calls |->
                     IF frame[c].pc = "dispatch"
                     THEN Dispatch(frame[c], tools, o)
                     ELSE frame[c]]
    /\ UNCHANGED <<llm_provider, tools, max_iterations>>

BudgetExceededBoth ==
  /\ \E c \in Calls : frame[c].pc = "generate" /\ ~HasNext(frame[c])
  /\ frame' = [c \in Calls |->
                 IF frame[c].pc = "generate" /\ ~HasNext(frame[c])
                 THEN RaiseBudget(frame[c], max_iterations)
                 ELSE frame[c]]
  /\ UNCHANGED <<llm_provider, tools, max_iterations>>

NextVerbose ==
  \/ RunBoth
  \/ GenerateBoth
  \/ GenerateFailsBoth
  \/ StepBoth
  \/ BudgetExceededBoth

SpecVerbose == Init /\ [][NextVerbose]_vars

(***************************************************************************)
(* Two calls of run on the same agent, each with its own task, interleaved *)
(* step by step in every order (one after the other included).            *)
(***************************************************************************)
OtherTask == <<"What is 7 * 6?">>

\* The task each call is given.
TaskOf == [c \in Calls |-> IF c = "a" THEN Task ELSE OtherTask]

\* A few of the backend's replies, one of each kind.
FewReplies ==
  {FinalX, CallCalculator, CallCalculatorBad, CallConcrete, CallUnknown, Prose, Number42}

\* The replies given to the interleaved calls.
InterleavedReplies == {FinalX, CallCalculator, CallUnknown, Prose, Number42}

\* run(task) is called, verbose left at its default.
RunTask(c) ==
  /\ frame[c].pc = "idle"
  /\ frame' = [frame EXCEPT ![c] = EnterRun(TaskOf[c], FALSE, tools, max_iterations)]
  /\ UNCHANGED <<llm_provider, tools, max_iterations>>

\* The backend call of an iteration returns one of the few texts.
GenerateFew(c) ==
  /\ frame[c].pc = "generate"
  /\ HasNext(frame[c])
  /\ \E response \in FewReplies :
       frame' = [frame EXCEPT ![c] = GenerateReturns(@, response)]
  /\ UNCHANGED <<llm_provider, tools, max_iterations>>

\* The backend call of an iteration of one of the interleaved calls returns.
GenerateInterleaved(c) ==
  /\ frame[c].pc = "generate"
  /\ HasNext(frame[c])
  /\ \E response \in InterleavedReplies :
       frame' = [frame EXCEPT ![c] = GenerateReturns(@, response)]
  /\ UNCHANGED <<llm_provider, tools, max_iterations>>

NextInterleaved ==
  \E c \in Calls :
    \/ RunTask(c)
    \/ GenerateInterleaved(c)
    \/ GenerateFails(c)
    \/ Step(c)
    \/ BudgetExceeded(c)

SpecInterleaved == Init /\ [][NextInterleaved]_vars

(***************************************************************************)
(* One call of run on an agent constructed with any list of tools, lists   *)
(* with repeated names included.                                           *)
(***************************************************************************)
\* A caller's tool that carries the name of the calculator.
ShadowTool ==
  [cls |-> "ConcreteTool",
   name |-> <<"calculator">>,
   description |-> <<"A test tool">>]

ToolObjects == {CalculatorTool, ConcreteTool, ShadowTool}

\* The lists of at most MaxTools tools.
SuppliedLists == UNION {[1..n -> ToolObjects] : n \in 0..MaxTools}

InitTools ==
  /\ llm_provider = "backend"
  /\ \E tool_list \in SuppliedLists : tools = Registry(tool_list, PyDict(<<>>, <<>>))
  /\ max_iterations \in Budgets
  /\ frame = [c \in Calls |-> IdleFrame]

NextTools ==
  \/ RunTask("a")
  \/ GenerateFew("a")
  \/ GenerateFails("a")
  \/ Step("a")
  \/ BudgetExceeded("a")

SpecTools == InitTools /\ [][NextTools]_vars

(***************************************************************************)
(* One call of run on an agent with the calculator and the verifier, the   *)
(* backend asking for verifications of every expression against every      *)
(* expected value.                                                         *)
(***************************************************************************)
VerifyExpressions == {"2 + 2", "0.1 + 0.2", "invalid", UnsafeExpression[1]}

\* The expected values, as JSON texts.
ExpectedValues == {<<"4">>, <<"5">>, <<"0.3">>, <<"4.0">>, Lit("4"), <<"null">>}

CallVerify(expression, expected) ==
  Obj(Member("tool", Lit("verify_calculation")) \o <<COMMA>>
      \o Member("arguments",
                Obj(Member("expression", Lit(expression)) \o <<COMMA>>
                    \o Member("expected", expected))))

VerifyReplies ==
  {CallVerify(e, x) : e \in VerifyExpressions, x \in ExpectedValues}
    \cup {FinalX, Obj(Member("tool", Lit("verify_calculation")))}

InitVerify ==
  /\ llm_provider = "backend"
  /\ tools = Registry(<<CalculatorTool, VerifyCalculationTool>>, PyDict(<<>>, <<>>))
  /\ max_iterations \in Budgets
  /\ frame = [c \in Calls |-> IdleFrame]

\* The backend call of an iteration returns a request for a verification.
GenerateVerify(c) ==
  /\ frame[c].pc = "generate"
  /\ HasNext(frame[c])
  /\ \E response \in VerifyReplies :
       frame' = [frame EXCEPT ![c] = GenerateReturns(@, response)]
  /\ UNCHANGED <<llm_provider, tools, max_iterations>>

NextVerify ==
  \/ RunTask("a")
  \/ GenerateVerify("a")
  \/ GenerateFails("a")
  \/ Step("a")
  \/ BudgetExceeded("a")

SpecVerify == InitVerify /\ [][NextVerify]_vars

(***************************************************************************)
(* What the properties below speak of.                                     *)
(***************************************************************************)
\* The positions of the assistant messages: the replies received, in order.
AssistantAt(f) == {i \in 1..Len(f.messages) : f.messages[i].role = "assistant"}

\* The positions of the assistant messages the loop body has finished with.
DispatchedAt(f) ==
  {i \in AssistantAt(f) : i < Len(f.messages) \/ f.pc \in {"returned", "raised"}}

\* The tool calls made for the assistant message at position i.
ExecutedFor(f, i) == {k \in 1..Len(f.executed) : f.executed[k].at = i}

\* A reply _parse_action raises JSONDecodeError on.
Unparseable(text) == ~ParseAction(text).ok

\* A reply that decodes to an object with a str final_answer.
ValidFinal(text) ==
  LET parsed == ParseAction(text)
  IN  /\ parsed.ok
      /\ parsed.val.t = "dict"
      /\ DictHas(parsed.val, <<"final_answer">>)
      /\ DictGet(parsed.val, <<"final_answer">>).t = "str"

\* The number of backend calls run may make.
Allowed == IF max_iterations > 0 THEN max_iterations ELSE 0

\* run raised RuntimeError("Max iterations (n) exceeded").
IsBudgetFailure(f) ==
  /\ f.pc = "raised"
  /\ f.exc = Raised("RuntimeError",
                    <<"Max iterations (", ToString(max_iterations), ") exceeded">>)

\* run raised what the backend call raised.
IsBackendFailure(f) == f.pc = "raised" /\ f.exc \in BackendErrors

\* Every backend call returned, and every reply was unparseable.
AlwaysMalformed(f) ==
  /\ \A i \in 1..Len(f.calls) : ~f.calls[i].failed
  /\ \A i \in AssistantAt(f) : Unparseable(f.messages[i].content)

(***************************************************************************)
(* C1.  Agent.run ends in one of three ways only: it returns a final       *)
(* answer, it raises the budget-exceeded failure, or it raises what the    *)
(* backend call raised; no other exception escapes, whatever the replies   *)
(* decode to.                                                              *)
(***************************************************************************)
C1_OnlyThreeEndings ==
  \A c \in Calls :
    frame[c].pc = "raised" => IsBudgetFailure(frame[c]) \/ IsBackendFailure(frame[c])

(***************************************************************************)
(* C2 as stated.  The number of backend calls of a run never exceeds       *)
(* max_iterations, and a run whose replies were all malformed ends with    *)
(* the budget-exceeded failure after exactly max_iterations calls.         *)
(***************************************************************************)
C2_CallsWithinMaxIterations ==
  \A c \in Calls :
    LET f == frame[c]
    IN  f.pc # "idle" =>
          /\ Len(f.calls) <= max_iterations
          /\ (AlwaysMalformed(f) /\ f.pc \in {"returned", "raised"}) =>
                IsBudgetFailure(f) /\ Len(f.calls) = max_iterations

(***************************************************************************)
(* C2 as amended.  The number of backend calls of a run never exceeds      *)
(* max_iterations when that is positive and is zero otherwise; every reply *)
(* consumes one iteration; a run whose replies were all malformed ends     *)
(* only with the budget-exceeded failure, after exactly that many calls.   *)
(***************************************************************************)
C2_CallsWithinBudget ==
  \A c \in Calls :
    LET f == frame[c]
    IN  f.pc # "idle" =>
          /\ Len(f.calls) <= Allowed
          /\ f.iteration = Len(f.calls)
          /\ Cardinality(AssistantAt(f)) + Cardinality({i \in 1..Len(f.calls) : f.calls[i].failed})
               = Len(f.calls)
          /\ (AlwaysMalformed(f) /\ f.pc \in {"returned", "raised"}) =>
                IsBudgetFailure(f) /\ Len(f.calls) = Allowed
          /\ IsBudgetFailure(f) => Len(f.calls) = Allowed

C2_Witness ==
  \E c \in Calls :
    /\ max_iterations >= 2
    /\ AlwaysMalformed(frame[c])
    /\ IsBudgetFailure(frame[c])
    /\ Len(frame[c].calls) = max_iterations

(***************************************************************************)
(* C3.  When the replies of a run were K unparseable texts and then a      *)
(* valid final answer X, the run has returned X after exactly K + 1        *)
(* backend calls, the conversation holds exactly K corrective user         *)
(* messages, one directly after each unparseable assistant message, and    *)
(* no tool was executed (for K = 0: one backend call, no tool).            *)
(***************************************************************************)
\* The number of user messages asking for a valid JSON object.
Correctives(f) ==
  Cardinality({i \in 1..Len(f.messages) :
                 f.messages[i] = Message("user", <<"Please respond with a valid JSON object.">>)})

\* The replies so far: K unparseable texts, then a valid final answer, which the
\* loop body has worked on.
MalformedThenFinal(f, K) ==
  /\ f.pc \notin {"idle", "dispatch"}
  /\ \A i \in 1..Len(f.calls) : ~f.calls[i].failed
  /\ Cardinality(AssistantAt(f)) = K + 1
  /\ \E last \in AssistantAt(f) :
       /\ \A i \in AssistantAt(f) : i <= last
       /\ ValidFinal(f.messages[last].content)
       /\ \A i \in AssistantAt(f) \ {last} : Unparseable(f.messages[i].content)

\* Each unparseable reply the loop body has worked on is followed directly by the
\* corrective user message, and the run went on.
CorrectedEach(f) ==
  \A i \in AssistantAt(f) :
    (Unparseable(f.messages[i].content) /\ (i < Len(f.messages) \/ f.pc # "dispatch")) =>
      /\ Len(f.messages) > i
      /\ f.messages[i + 1] = Message("user", <<"Please respond with a valid JSON object.">>)
      /\ ExecutedFor(f, i) = {}
      /\ Len(f.messages) = i + 1 =>
           \/ f.pc = "generate"
           \/ IsBudgetFailure(f) /\ Len(f.calls) = Allowed
           \/ IsBackendFailure(f)

C3_MalformedThenFinal ==
  \A c \in Calls : \A K \in 0..(MaxIterations + 1) :
    LET f == frame[c]
    IN  /\ CorrectedEach(f)
        /\ MalformedThenFinal(f, K) =>
          /\ K < max_iterations
          /\ f.pc = "returned"
          /\ f.result = DictGet(ParseAction(f.messages[Len(f.messages)].content).val,
                                <<"final_answer">>)
          /\ f.messages[Len(f.messages)].content = FinalX => f.result = PyStr(<<"X">>)
          /\ Len(f.calls) = K + 1
          /\ Len(f.messages) = 2 * K + 3
          /\ \A j \in 1..K :
               /\ f.messages[2 * j + 1].role = "assistant"
               /\ Unparseable(f.messages[2 * j + 1].content)
               /\ f.messages[2 * j + 2]
                    = Message("user", <<"Please respond with a valid JSON object.">>)
          /\ Correctives(f) = K
          /\ f.executed = <<>>

C3_Witness ==
  \E c \in Calls :
    /\ MalformedThenFinal(frame[c], 1)
    /\ frame[c].pc = "returned"
    /\ frame[c].result = PyStr(<<"X">>)

(***************************************************************************)
(* More of what the properties speak of.                                   *)
(***************************************************************************)
\* The assistant contents of a frame, in order.
RepliesOf(f) ==
  LET RECURSIVE Pick(_)
      Pick(i) == IF i > Len(f.messages) THEN <<>>
                 ELSE IF f.messages[i].role = "assistant"
                      THEN <<f.messages[i].content>> \o Pick(i + 1)
                      ELSE Pick(i + 1)
  IN  Pick(1)

\* The run did not end in the iteration of the message at position i: it is at
\* the head of the loop (with another backend call to come when the budget
\* allows), or left it by the budget or by a backend failure.
WentOn(f, i) ==
  Len(f.messages) = i + 1 =>
    \/ f.pc = "generate" /\ (Len(f.calls) < max_iterations => HasNext(f))
    \/ IsBudgetFailure(f) /\ Len(f.calls) = Allowed
    \/ IsBackendFailure(f)

\* Every valid final answer received after position i and worked on was returned.
LaterFinalReturned(f, i) ==
  \A j \in AssistantAt(f) :
    (j > i /\ ValidFinal(f.messages[j].content) /\ (j < Len(f.messages) \/ f.pc # "dispatch")) =>
      /\ f.pc = "returned"
      /\ j = Len(f.messages)
      /\ f.result = DictGet(ParseAction(f.messages[j].content).val, <<"final_answer">>)

\* The backend calls made after the assistant message at position i received the
\* message m at position i + 1, and the first of them received nothing after it.
SentAfter(f, i, m) ==
  \A j \in 1..Len(f.calls) :
    Len(f.calls[j].messages) >= i =>
      /\ Len(f.calls[j].messages) >= i + 1
      /\ f.calls[j].messages[i + 1] = m
      /\ (j > 1 /\ Len(f.calls[j - 1].messages) < i) => Len(f.calls[j].messages) = i + 1

(***************************************************************************)
(* C4.  When the action names a registered tool and execute returns r, run *)
(* appends exactly one user message "Tool result: r" directly after the    *)
(* assistant message, and every later backend call receives it; the tool   *)
(* is called once per such action.  With the replies "calculator on        *)
(* 2 + 2 * 3" and then final answer "8", run returns "8", the calculator   *)
(* is executed exactly once and "Tool result: 8" is in the conversation of *)
(* the second backend call and not of the first.                           *)
(***************************************************************************)
CalculatorExample(f) ==
  /\ f.pc \notin {"idle", "dispatch"}
  /\ \A i \in 1..Len(f.calls) : ~f.calls[i].failed
  /\ RepliesOf(f) = <<CallCalculator, Final8>>

C4_ToolResultObserved ==
  \A c \in Calls :
    LET f == frame[c]
    IN  /\ \A k \in 1..Len(f.executed) :
             LET e == f.executed[k]
                 m == Message("user", <<"Tool result", ":", " ">> \o PyFormat(e.outcome.val))
             IN  e.outcome.ok =>
                   /\ f.messages[e.at].role = "assistant"
                   /\ ToolCall(f.messages[e.at].content, tools)
                        = [calls |-> TRUE, tool |-> e.tool, args |-> e.args]
                   /\ Len(f.messages) > e.at
                   /\ f.messages[e.at + 1] = m
                   /\ Len(f.messages) > e.at + 1 => f.messages[e.at + 2].role = "assistant"
                   /\ SentAfter(f, e.at, m)
        /\ \A i \in DispatchedAt(f) :
             ToolCall(f.messages[i].content, tools).calls
               => Cardinality(ExecutedFor(f, i)) = 1
        /\ CalculatorExample(f) =>
             /\ f.pc = "returned"
             /\ f.result = PyStr(<<"8">>)
             /\ Len(f.executed) = 1
             /\ f.executed[1].tool = CalculatorTool
             /\ f.executed[1].args = PyDict(<<<<"expression">>>>, <<PyStr(<<"2 + 2 * 3">>)>>)
             /\ f.executed[1].outcome = Returned(PyInt("8"))
             /\ Len(f.calls) = 2
             /\ \A i \in 1..Len(f.calls[1].messages) :
                  f.calls[1].messages[i] # Message("user", <<"Tool result", ":", " ", "8">>)
             /\ f.calls[2].messages[4] = Message("user", <<"Tool result", ":", " ", "8">>)

C4_Witness ==
  \E c \in Calls :
    /\ CalculatorExample(frame[c])
    /\ frame[c].pc = "returned"
    /\ Len(frame[c].executed) = 1

NamesUnknownTool(text) ==
  LET parsed == ParseAction(text)
  IN  /\ parsed.ok
      /\ parsed.val.t = "dict"
      /\ ~DictHas(parsed.val, <<"final_answer">>)
      /\ DictHas(parsed.val, <<"tool">>)
      /\ DictGet(parsed.val, <<"tool">>).t \notin {"list", "dict"}
      /\ ~(/\ DictGet(parsed.val, <<"tool">>).t = "str"
           /\ \E i \in 1..Len(tools.keys) : tools.keys[i] = DictGet(parsed.val, <<"tool">>).s)

C6_UnknownToolObserved ==
  \A c \in Calls :
    LET f == frame[c]
    IN  \A i \in DispatchedAt(f) :
          NamesUnknownTool(f.messages[i].content) =>
            LET name == DictGet(ParseAction(f.messages[i].content).val, <<"tool">>)
                m == Message("user", <<"Unknown tool", ":", " ">> \o PyFormat(name))
            IN  /\ ExecutedFor(f, i) = {}
                /\ Len(f.messages) > i
                /\ f.messages[i + 1] = m
                /\ Len(f.messages) > i + 1 => f.messages[i + 2].role = "assistant"
                /\ SentAfter(f, i, m)
                /\ WentOn(f, i)
                /\ LaterFinalReturned(f, i)
                /\ f.iteration >= Cardinality({j \in AssistantAt(f) : j <= i})

C6_Witness ==
  \E c \in Calls :
    LET f == frame[c]
    IN  /\ f.pc = "returned"
        /\ RepliesOf(f) = <<CallUnknown, FinalX>>
        /\ f.messages[4] = Message("user", <<"Unknown tool", ":", " ", "search">>)
        /\ f.executed = <<>>

(***************************************************************************)
(* C7.  When a backend generate call raises, run raises the same failure   *)
(* at once: that call is the last backend call of the run, no message is   *)
(* appended and no tool is executed after it, whatever budget remains.     *)
(***************************************************************************)
C7_BackendFailureSurfaces ==
  \A c \in Calls :
    LET f == frame[c]
    IN  \A i \in 1..Len(f.calls) :
          f.calls[i].failed =>
            /\ i = Len(f.calls)
            /\ IsBackendFailure(f)
            /\ f.messages = f.calls[i].messages
            /\ \A k \in 1..Len(f.executed) : f.executed[k].at < Len(f.calls[i].messages)
            /\ f.result = PyNone

C7_Witness ==
  \E c \in Calls :
    LET f == frame[c]
    IN  /\ Len(f.calls) = 1
        /\ f.calls[1].failed
        /\ Len(f.calls) < max_iterations
        /\ IsBackendFailure(f)

(***************************************************************************)
(* C8.  The parser accepts only an object with a str final_answer or an    *)
(* object with a str tool (and an optional arguments mapping); any other   *)
(* decoded value is a malformed action, answered by the corrective         *)
(* message, never returned and never dispatched on; so every value run     *)
(* returns is a str.                                                       *)
(***************************************************************************)
\* The decoded value has one of the two shapes.
WellShaped(v) ==
  /\ v.t = "dict"
  /\ \/ DictHas(v, <<"final_answer">>) /\ DictGet(v, <<"final_answer">>).t = "str"
     \/ /\ ~DictHas(v, <<"final_answer">>)
        /\ DictHas(v, <<"tool">>)
        /\ DictGet(v, <<"tool">>).t = "str"
        /\ DictHas(v, <<"arguments">>) => DictGet(v, <<"arguments">>).t = "dict"

C8_OnlyTwoShapes ==
  \A c \in Calls :
    LET f == frame[c]
    IN  /\ f.pc = "returned" => f.result.t = "str"
        /\ \A i \in DispatchedAt(f) :
             LET parsed == ParseAction(f.messages[i].content)
             IN  (parsed.ok /\ ~WellShaped(parsed.val)) =>
                   /\ Len(f.messages) > i
                   /\ f.messages[i + 1]
                        = Message("user", <<"Please respond with a valid JSON object.">>)
                   /\ ExecutedFor(f, i) = {}

(***************************************************************************)
(* C9.  When the action has both a final_answer and a tool field, run      *)
(* returns the final answer in that iteration and does not execute the     *)
(* tool, registered or not.                                                *)
(***************************************************************************)
HasBothFields(text) ==
  LET parsed == ParseAction(text)
  IN  /\ parsed.ok
      /\ parsed.val.t = "dict"
      /\ DictHas(parsed.val, <<"final_answer">>)
      /\ DictHas(parsed.val, <<"tool">>)

C9_FinalAnswerWins ==
  \A c \in Calls :
    LET f == frame[c]
    IN  \A i \in AssistantAt(f) :
          (HasBothFields(f.messages[i].content) /\ (i < Len(f.messages) \/ f.pc # "dispatch")) =>
            /\ f.pc = "returned"
            /\ i = Len(f.messages)
            /\ f.result = DictGet(ParseAction(f.messages[i].content).val, <<"final_answer">>)
            /\ ExecutedFor(f, i) = {}
            /\ Len(f.calls) = Cardinality(AssistantAt(f))

C9_Witness ==
  \E c \in Calls :
    LET f == frame[c]
    IN  /\ f.pc = "returned"
        /\ f.result = PyStr(<<"X">>)
        /\ f.messages[Len(f.messages)].content = BothRegistered
        /\ f.executed = <<>>

(***************************************************************************)
(* C10.  verbose never changes behaviour: on the same agent, task, backend *)
(* replies and tool outcomes, the call with verbose=True and the call with *)
(* verbose=False make the same backend calls with the same conversations,  *)
(* execute the same tools with the same arguments in the same order, and   *)
(* end with the same returned value or the same failure.  (Checked on the  *)
(* two calls of SpecVerbose.)                                              *)
(***************************************************************************)
\* All of a frame but the flag and the lines printed.
Behaviour(f) ==
  [pc |-> f.pc, task |-> f.task, messages |-> f.messages, stop |-> f.stop,
   iteration |-> f.iteration, result |-> f.result, exc |-> f.exc,
   calls |-> f.calls, executed |-> f.executed]

C10_VerboseOnlyPrints ==
  /\ Behaviour(frame["a"]) = Behaviour(frame["b"])
  /\ frame["b"].printed = <<>>

C10_Witness ==
  /\ frame["a"].verbose /\ ~frame["b"].verbose
  /\ frame["a"].pc = "returned" /\ frame["b"].pc = "returned"
  /\ Len(frame["a"].executed) = 1
  /\ ~frame["a"].executed[1].outcome.ok
  /\ Len(frame["a"].printed) = 5 /\ frame["b"].printed = <<>>
(***************************************************************************)
(* C11.  Runs share no mutable state: no step of run changes the agent's   *)
(* tool registry, backend reference or max_iterations, and a step of one   *)
(* call changes nothing of another call; every call, also one made after   *)
(* or in between the steps of another, starts from exactly the system      *)
(* message and its own task with its iteration count at zero, its backend  *)
(* calls are counted against its own budget only, and no message of        *)
(* another call's conversation is in its own.  (Checked on the two calls   *)
(* of SpecInterleaved.)                                                    *)
(***************************************************************************)
\* The conversation a call of run starts from.
Seed(f) == <<Message("system", CreateSystemPrompt(tools)), Message("user", f.task)>>

OwnConversation(c) ==
  LET f == frame[c]
  IN  f.pc # "idle" =>
        /\ f.task = TaskOf[c]
        /\ Len(f.messages) >= 2
        /\ SubSeq(f.messages, 1, 2) = Seed(f)
        /\ f.calls # <<>> => f.calls[1].messages = Seed(f)
        /\ f.iteration = Len(f.calls)
        /\ Len(f.calls) <= Allowed
        /\ Len(f.messages) <= 2 + 2 * Len(f.calls)
        /\ \A d \in Calls \ {c} : \A i \in 1..Len(f.messages) :
             f.messages[i] # Message("user", TaskOf[d])

AgentUntouched ==
  /\ tools' = tools
  /\ llm_provider' = llm_provider
  /\ max_iterations' = max_iterations

OneCallSteps ==
  \E c \in Calls : \A d \in Calls \ {c} : frame'[d] = frame[d]

C11_RunsShareNothing ==
  /\ [](\A c \in Calls : OwnConversation(c))
  /\ [][AgentUntouched /\ OneCallSteps]_vars

C11_Witness ==
  /\ frame["a"].pc = "returned"
  /\ Len(frame["a"].executed) = 1
  /\ frame["b"].pc = "dispatch"
  /\ Len(frame["b"].calls) = 2
  /\ Len(frame["b"].messages) = 5
(***************************************************************************)
(* C12.  For every list of tools with pairwise distinct names the agent    *)
(* may have been constructed with, the tool section of the system prompt   *)
(* is exactly one line "- name: description" per tool of the list, in the  *)
(* order of the list; and the system message with that prompt is the first *)
(* message of every conversation a backend call receives.                  *)
(***************************************************************************)
DistinctNames(tool_list) ==
  \A i, j \in 1..Len(tool_list) : tool_list[i].name = tool_list[j].name => i = j

\* The agent's registry is the one made from tool_list.
ConstructedWith(tool_list) == tools = Registry(tool_list, PyDict(<<>>, <<>>))

ToolLine(tool) == <<"- ">> \o tool.name \o <<COLON, " ">> \o tool.description

RECURSIVE SplitLines(_)
\* The lines of a text, cut at its line breaks; the empty text has none.
SplitLines(text) ==
  IF text = <<>> THEN <<>>
  ELSE IF \E i \in 1..Len(text) : text[i] = "\n"
  THEN LET i == CHOOSE j \in 1..Len(text) :
                  text[j] = "\n" /\ \A k \in 1..(j - 1) : text[k] # "\n"
       IN  <<SubSeq(text, 1, i - 1)>> \o SplitLines(SubSeq(text, i + 1, Len(text)))
  ELSE <<text>>

\* What the prompt holds between "Available tools:\n" and the blank line before
\* "To use a tool".
ToolSection(prompt) ==
  LET last == CHOOSE i \in 1..Len(prompt) :
                prompt[i] = "\n\nTo use a tool, respond with a JSON object in this format"
  IN  SubSeq(prompt, 4, last - 1)

C12_PromptListsTools ==
  \A tool_list \in SuppliedLists :
    DistinctNames(tool_list) /\ ConstructedWith(tool_list) =>
      \A c \in Calls : \A i \in 1..Len(frame[c].calls) :
        LET first == frame[c].calls[i].messages[1]
        IN  /\ first.role = "system"
            /\ first = frame[c].messages[1]
            /\ SubSeq(first.content, 1, 3)
                 = <<"You are a helpful AI assistant that can use tools to accomplish tasks.\n\nAvailable tools",
                     COLON, "\n">>
            /\ SplitLines(ToolSection(first.content))
                 = [k \in 1..Len(tool_list) |-> ToolLine(tool_list[k])]

C12_Witness ==
  /\ ConstructedWith(<<ConcreteTool, CalculatorTool>>)
  /\ Len(frame["a"].calls) = 2
  /\ frame["a"].pc = "returned"
(***************************************************************************)
(* C13.  The registry maps each name to exactly one tool: for every list   *)
(* the agent may have been constructed with, repeated names included, the  *)
(* names registered are the names of the list, each once, and the tool     *)
(* registered under a name is the last tool of the list with that name;    *)
(* that tool has the one line of the system prompt for the name, and it is *)
(* the tool executed when an action names it, so a tool of the list that   *)
(* is not the last of its name is never executed.                          *)
(***************************************************************************)
\* The last tool of the list with this name.
LastNamed(tool_list, name) ==
  tool_list[CHOOSE i \in 1..Len(tool_list) :
              /\ tool_list[i].name = name
              /\ \A j \in (i + 1)..Len(tool_list) : tool_list[j].name # name]

\* The tool name of the action in the assistant message at position i.
ToolNamedAt(f, i) == DictGet(ParseAction(f.messages[i].content).val, <<"tool">>)

C13_LastToolOfANameWins ==
  \A tool_list \in SuppliedLists :
    ConstructedWith(tool_list) =>
      LET names == {tool_list[i].name : i \in 1..Len(tool_list)}
          lines == SplitLines(ToolSection(CreateSystemPrompt(tools)))
      IN  /\ {tools.keys[i] : i \in 1..Len(tools.keys)} = names
          /\ Len(tools.keys) = Cardinality(names)
          /\ Len(tools.vals) = Len(tools.keys)
          /\ \A name \in names : DictGet(tools, name) = LastNamed(tool_list, name)
          /\ Len(lines) = Cardinality(names)
          /\ \A name \in names :
               /\ Cardinality({k \in 1..Len(lines) :
                                 SubSeq(lines[k], 1, 2) = <<"- ">> \o name}) = 1
               /\ \E k \in 1..Len(lines) : lines[k] = ToolLine(LastNamed(tool_list, name))
          /\ \A c \in Calls : \A k \in 1..Len(frame[c].executed) :
               LET e == frame[c].executed[k]
                   tool_name == ToolNamedAt(frame[c], e.at)
               IN  /\ tool_name.t = "str"
                   /\ tool_name.s \in names
                   /\ e.tool = LastNamed(tool_list, tool_name.s)
                   /\ e.outcome \in CallExecute(e.tool, e.args)

C13_Witness ==
  /\ ConstructedWith(<<CalculatorTool, ShadowTool>>)
  /\ Len(frame["a"].executed) = 1
  /\ frame["a"].executed[1].tool = ShadowTool
  /\ frame["a"].executed[1].outcome = Returned(PyStr(<<"executed">>))
  /\ frame["a"].messages[3].content = CallCalculator
(***************************************************************************)
(* C14.  CalculatorTool.execute fails rather than crashes: whenever the    *)
(* evaluation of its expression raises, execute raises ValueError with a   *)
(* message starting "Invalid expression:" and no other exception type      *)
(* leaves it; so in a run every failure of the calculator on an expression *)
(* is followed by a "Tool error" observation.                              *)
(***************************************************************************)
\* The calculator was called with an expression and nothing else.
CalledOnExpression(e) ==
  /\ e.tool = CalculatorTool
  /\ e.args.t = "dict"
  /\ e.args.keys = <<<<"expression">>>>

C14_CalculatorRaisesValueError ==
  \A c \in Calls :
    LET f == frame[c]
    IN  \A k \in 1..Len(f.executed) :
          LET e == f.executed[k]
          IN  CalledOnExpression(e) /\ ~e.outcome.ok =>
                /\ e.outcome.exc = "ValueError"
                /\ SubSeq(e.outcome.msg, 1, 3) = <<"Invalid expression", COLON, " ">>
                /\ Len(f.messages) > e.at
                /\ f.messages[e.at + 1]
                     = Message("user", <<"Tool error", COLON, " ">> \o e.outcome.msg)
(***************************************************************************)
(* C15.  VerifyCalculationTool.execute never raises and always returns a   *)
(* boolean: called with an expression and an expected value, it returns    *)
(* True when the expression evaluates to a value equal to the expected     *)
(* one, and False in every other case (the expression cannot be evaluated, *)
(* the values cannot be compared, the values differ).                      *)
(***************************************************************************)
\* The verifier was called with an expression and an expected value.
CalledToVerify(e) ==
  /\ e.tool = VerifyCalculationTool
  /\ e.args.t = "dict"
  /\ {e.args.keys[i] : i \in 1..Len(e.args.keys)} = {<<"expression">>, <<"expected">>}

C15_VerifyReturnsBoolean ==
  \A c \in Calls :
    \A k \in 1..Len(frame[c].executed) :
      LET e == frame[c].executed[k]
          equal == \E o \in CalculatorEval(DictGet(e.args, <<"expression">>)) :
                     o.ok /\ PyEq(o.val, DictGet(e.args, <<"expected">>))
      IN  CalledToVerify(e) =>
            /\ e.outcome.ok
            /\ e.outcome.val = BoolOf(equal)
(***************************************************************************)
(* What run did with the assistant message at position i: it answered with *)
(* the corrective message, or it worked on a decoded action.               *)
(***************************************************************************)
AnsweredMalformed(f, i) ==
  /\ Len(f.messages) > i
  /\ f.messages[i + 1] = Message("user", <<"Please respond with a valid JSON object.">>)

\* The span from the first { to the last } of the text, decoded; not ok when
\* the text has no such span or the span does not decode.
SpanDecoded(text) ==
  IF \E i, j \in 1..Len(text) : i < j /\ text[i] = LBRACE /\ text[j] = RBRACE
  THEN LET i == CHOOSE k \in 1..Len(text) :
                  text[k] = LBRACE /\ \A l \in 1..(k - 1) : text[l] # LBRACE
           j == CHOOSE k \in 1..Len(text) :
                  text[k] = RBRACE /\ \A l \in (k + 1)..Len(text) : text[l] # RBRACE
       IN  JsonLoads(SubSeq(text, i, j))
  ELSE [ok |-> FALSE, val |-> PyNone]

HasSpan(text) ==
  \E i, j \in 1..Len(text) : i < j /\ text[i] = LBRACE /\ text[j] = RBRACE

(***************************************************************************)
(* C16 as stated.  The parser decodes the span from the first { to the     *)
(* last } of the reply; when that span does not decode it decodes the      *)
(* entire text, and the reply is a malformed action only when neither      *)
(* decodes: a reply with braces whose span is not valid but whose whole    *)
(* text is valid is decoded from the whole text.                           *)
(***************************************************************************)
C16_WholeTextAfterSpan ==
  \A c \in Calls :
    LET f == frame[c]
    IN  \A i \in DispatchedAt(f) :
          LET text == f.messages[i].content
              decoded == IF SpanDecoded(text).ok THEN SpanDecoded(text)
                         ELSE JsonLoads(text)
          IN  /\ ParseAction(text) = decoded
              /\ AnsweredMalformed(f, i) <=> ~decoded.ok

(***************************************************************************)
(* C16.  The parser decodes the span from the first { to the last } of the *)
(* reply when the reply has one, and the reply is a malformed action when  *)
(* that span does not decode, the entire text not being tried; only a      *)
(* reply without such a span is decoded from its entire text.  A reply     *)
(* with braces whose span is not valid but whose whole text is valid is    *)
(* answered with the corrective message.                                   *)
(***************************************************************************)
C16_WholeTextOnlyWithoutSpan ==
  \A c \in Calls :
    LET f == frame[c]
    IN  \A i \in DispatchedAt(f) :
          LET text == f.messages[i].content
              decoded == IF HasSpan(text) THEN SpanDecoded(text) ELSE JsonLoads(text)
          IN  /\ ParseAction(text) = decoded
              /\ AnsweredMalformed(f, i) <=> ~decoded.ok

C16_Witness ==
  \E c \in Calls :
    LET f == frame[c]
    IN  /\ Len(f.messages) >= 4
        /\ f.messages[3].content = ListWithBraces
        /\ JsonLoads(ListWithBraces).ok
        /\ ~SpanDecoded(ListWithBraces).ok
        /\ AnsweredMalformed(f, 3)
(***************************************************************************)
(* C17.  The conversation of a run is append-only and keeps one shape:     *)
(* messages 1 and 2 are the system prompt and the user task and never      *)
(* change; a step appends at most one message and changes none; backend    *)
(* call number i receives exactly 2 + 2 * (i - 1) messages, the first      *)
(* messages of the conversation; an iteration that does not end the run    *)
(* leaves one assistant message, the reply as received, and then one user  *)
(* message, which is the corrective, unknown-tool, tool-result, tool-error *)
(* or choose-a-tool message; from position 3 on the roles alternate        *)
(* assistant, user, and no system message is appended.                     *)
(***************************************************************************)
IsObservation(content) ==
  \/ content = <<"Please respond with a valid JSON object.">>
  \/ content = <<"Please specify a tool to use or provide a final_answer.">>
  \/ Len(content) >= 3 /\ SubSeq(content, 1, 3) \in {<<"Unknown tool", ":", " ">>,
                                                     <<"Tool result", ":", " ">>,
                                                     <<"Tool error", ":", " ">>}

ConversationShape(f) ==
  f.pc # "idle" =>
    /\ Len(f.messages) >= 2
    /\ f.messages[1] = Message("system", CreateSystemPrompt(tools))
    /\ f.messages[2] = Message("user", f.task)
    /\ \A i \in 1..Len(f.calls) :
         /\ Len(f.calls[i].messages) = 2 + 2 * (i - 1)
         /\ f.calls[i].messages = SubSeq(f.messages, 1, 2 + 2 * (i - 1))
    /\ \A j \in 3..Len(f.messages) :
         /\ f.messages[j].role = IF j % 2 = 1 THEN "assistant" ELSE "user"
         /\ f.messages[j].role = "assistant" => f.messages[j].content \in Replies
         /\ f.messages[j].role = "user" => IsObservation(f.messages[j].content)
    /\ f.pc = "generate" => Len(f.messages) = 2 + 2 * f.iteration
    /\ f.pc = "dispatch" => Len(f.messages) = 1 + 2 * f.iteration

AppendOnly ==
  \A c \in Calls :
    frame[c].pc # "idle" =>
      /\ Len(frame'[c].messages) \in {Len(frame[c].messages), Len(frame[c].messages) + 1}
      /\ SubSeq(frame'[c].messages, 1, Len(frame[c].messages)) = frame[c].messages

C17_ConversationAppendOnly ==
  /\ [](\A c \in Calls : ConversationShape(frame[c]))
  /\ [][AppendOnly]_vars

C17_Witness ==
  \E c \in Calls :
    /\ Len(frame[c].messages) = 6
    /\ Len(frame[c].calls) = 2
    /\ Len(frame[c].executed) = 1
    /\ IsBudgetFailure(frame[c])
(***************************************************************************)
(* C18.  When the decoded action is an object with neither a final_answer  *)
(* field nor a tool field (the empty object, an object with arguments      *)
(* only), run executes no tool for it, appends the one user message        *)
(* "Please specify a tool to use or provide a final_answer." directly      *)
(* after the assistant message, and goes back to the head of the loop with *)
(* one iteration consumed: the next backend call receives that message,    *)
(* or the budget is exhausted.                                             *)
(***************************************************************************)
\* The text decodes to an object with neither field.
NeitherField(text) ==
  LET parsed == ParseAction(text)
  IN  /\ parsed.ok
      /\ parsed.val.t = "dict"
      /\ ~DictHas(parsed.val, <<"final_answer">>)
      /\ ~DictHas(parsed.val, <<"tool">>)

C18_NeitherFieldPrompted ==
  \A c \in Calls :
    LET f == frame[c]
        m == Message("user", <<"Please specify a tool to use or provide a final_answer.">>)
    IN  \A i \in DispatchedAt(f) :
          NeitherField(f.messages[i].content) =>
            /\ ExecutedFor(f, i) = {}
            /\ Len(f.messages) > i
            /\ f.messages[i + 1] = m
            /\ Len(f.messages) > i + 1 => f.messages[i + 2].role = "assistant"
            /\ SentAfter(f, i, m)
            /\ WentOn(f, i)
            /\ f.iteration >= (i - 1) \div 2
            /\ LaterFinalReturned(f, i)

C18_Witness ==
  \E c \in Calls :
    LET f == frame[c]
    IN  /\ f.pc = "returned"
        /\ Len(f.messages) = 5
        /\ f.messages[3].content \in {EmptyObject, OnlyArguments}
        /\ f.messages[4].content = ChooseMessage
        /\ f.executed = <<>>
(***************************************************************************)
(* C19.  Every call of run eventually reaches a terminal state, Done (it   *)
(* returns the final answer) or Failed (it raises the budget-exceeded      *)
(* failure or the backend's failure), given that every backend call and    *)
(* every tool call returns or raises; and no sequence of replies takes the *)
(* loop beyond max_iterations iterations.  (Checked on SpecLive.)          *)
(***************************************************************************)
Started(f) == f.pc # "idle"

DoneOrFailed(f) == f.pc = "returned" \/ IsBudgetFailure(f) \/ IsBackendFailure(f)

C19_RunTerminates ==
  /\ [](frame["a"].iteration <= Allowed)
  /\ Started(frame["a"]) ~> DoneOrFailed(frame["a"])
(***************************************************************************)
(* C20.  With max_iterations zero or negative, run raises the              *)
(* budget-exceeded failure without any backend call and without any tool   *)
(* call.  With max_iterations 1, a first reply that is not a final answer  *)
(* leads to the budget-exceeded failure after exactly one backend call,    *)
(* and what that iteration appended after the reply is in no conversation  *)
(* a backend call received.                                                *)
(***************************************************************************)
\* The text decodes to an object with a final_answer field.
IsFinalAnswer(text) ==
  LET parsed == ParseAction(text)
  IN  parsed.ok /\ parsed.val.t = "dict" /\ DictHas(parsed.val, <<"final_answer">>)

C20_SmallBudgets ==
  \A c \in Calls :
    LET f == frame[c]
    IN  /\ (Started(f) /\ max_iterations <= 0) =>
             /\ f.calls = <<>>
             /\ f.executed = <<>>
             /\ f.pc = "generate" \/ IsBudgetFailure(f)
        /\ (max_iterations = 1 /\ 3 \in DispatchedAt(f)
              /\ ~IsFinalAnswer(f.messages[3].content)) =>
             /\ Len(f.calls) = 1
             /\ f.pc = "generate" \/ IsBudgetFailure(f)
             /\ \A j \in 1..Len(f.calls) : Len(f.calls[j].messages) = 2
====
